---------------------------- MODULE Spec2Model ----------------------------
(***************************************************************************)
(* A model of library.py: Library -> Shelf -> Book containment with        *)
(* manually synchronised back-references.                                  *)
(*                                                                         *)
(* Python objects are modelled by identity.  Books, Shelves and Libraries  *)
(* are numbered in construction order.  A list is an object of its own: a  *)
(* field such as shelf.books holds a REFERENCE (a list id) into a heap of  *)
(* lists, so that copying a list and aliasing it are different things.     *)
(* None is 0.                                                              *)
(***************************************************************************)
EXTENDS Naturals, Sequences, FiniteSets

\* Bounds of the model.
NBooks == 2
NShelves == 2
NLibs == 1
MaxLen == 2
MaxOps == 7

None == 0

Books == 1..NBooks
Shelves == 1..NShelves
Libs == 1..NLibs

\* List objects holding Books: the list that Shelf s allocates in its
\* constructor (id s), one list owned by the caller, and the list object
\* that is the default value of Shelf.__init__'s parameter `books`.
CallerBooks == NShelves + 1
DefaultBooks == NShelves + 2
BookListIds == 1..(NShelves + 2)

\* List objects holding Shelves, likewise for Library.
CallerShelves == NLibs + 1
DefaultShelves == NLibs + 2
ShelfListIds == 1..(NLibs + 2)

VARIABLES
    nBooks,      \* number of Book objects constructed so far
    nShelves,    \* number of Shelf objects constructed so far
    nLibs,       \* number of Library objects constructed so far
    bookLib,     \* book.library  : Book -> Library or None
    bookShelf,   \* book.shelf    : Book -> Shelf or None
    shelfLib,    \* shelf.library : Shelf -> Library or None
    shelfBooks,  \* shelf.books   : Shelf -> id of a list of Books (a reference)
    libShelves,  \* library.shelves : Library -> id of a list of Shelves
    bookLists,   \* the heap of lists of Books  : id -> sequence of Books
    shelfLists,  \* the heap of lists of Shelves: id -> sequence of Shelves
    nAppends,    \* number of append calls the caller has made so far
    lastOp       \* the call made by the last step, with what it returned

vars == <<nAppends, nBooks, nShelves, nLibs, bookLib, bookShelf, shelfLib,
          shelfBooks, libShelves, bookLists, shelfLists, lastOp>>

\* The object graph as one value, so that the methods are functions on it.
Heap == [bookLib |-> bookLib, bookShelf |-> bookShelf, shelfLib |-> shelfLib,
         shelfBooks |-> shelfBooks, libShelves |-> libShelves,
         bookLists |-> bookLists, shelfLists |-> shelfLists]

Commit(h) ==
    /\ bookLib' = h.bookLib
    /\ bookShelf' = h.bookShelf
    /\ shelfLib' = h.shelfLib
    /\ shelfBooks' = h.shelfBooks
    /\ libShelves' = h.libShelves
    /\ bookLists' = h.bookLists
    /\ shelfLists' = h.shelfLists

Op(name, self, arg, ret) == [op |-> name, self |-> self, arg |-> arg, ret |-> ret]

\* The contents of shelf.books and of library.shelves in heap h.
BooksOf(h, s) == h.bookLists[h.shelfBooks[s]]
ShelvesOf(h, l) == h.shelfLists[h.libShelves[l]]

-----------------------------------------------------------------------------
(* list.append on a list object *)

books_append(h, id, b) == [h EXCEPT !.bookLists[id] = Append(@, b)]

shelves_append(h, id, s) == [h EXCEPT !.shelfLists[id] = Append(@, s)]

-----------------------------------------------------------------------------
(* Shelf *)

\* for book in self.books: book.library = self.library; book.shelf = self
RECURSIVE Shelf_sync_books_from(_, _, _)
Shelf_sync_books_from(h, s, i) ==
    IF i > Len(BooksOf(h, s)) THEN h
    ELSE LET book == BooksOf(h, s)[i]
             h1 == [h EXCEPT !.bookLib[book] = h.shelfLib[s]]
             h2 == [h1 EXCEPT !.bookShelf[book] = s]
         IN Shelf_sync_books_from(h2, s, i + 1)

\* Faulty variant: the loop body without `book.library = self.library`.
RECURSIVE Shelf_sync_books_shelf_only_from(_, _, _)
Shelf_sync_books_shelf_only_from(h, s, i) ==
    IF i > Len(BooksOf(h, s)) THEN h
    ELSE Shelf_sync_books_shelf_only_from(
             [h EXCEPT !.bookShelf[BooksOf(h, s)[i]] = s], s, i + 1)

Shelf_sync_books_shelf_only(h, s) == Shelf_sync_books_shelf_only_from(h, s, 1)

Shelf_sync_books(h, s) == Shelf_sync_books_from(h, s, 1)

\* for book in books: self.books.append(book)
RECURSIVE Shelf_copy_from(_, _, _, _)
Shelf_copy_from(h, s, books, i) ==
    IF i > Len(h.bookLists[books]) THEN h
    ELSE Shelf_copy_from(books_append(h, h.shelfBooks[s], h.bookLists[books][i]),
                         s, books, i + 1)

\* Faulty variant: self.books = books, the argument list itself instead of a copy.
Shelf_init_aliasing(h, s, books) ==
    LET h1 == [h EXCEPT !.shelfBooks[s] = books]
        h2 == [h1 EXCEPT !.shelfLib[s] = None]
    IN Shelf_sync_books(h2, s)

\* Faulty variant: the constructor sets book.shelf and leaves book.library as it was.
Shelf_init_keep_library(h, s, books) ==
    LET h1 == [h EXCEPT !.shelfBooks[s] = s, !.bookLists[s] = <<>>]
        h2 == [h1 EXCEPT !.shelfLib[s] = None]
        h3 == Shelf_copy_from(h2, s, books, 1)
    IN Shelf_sync_books_shelf_only(h3, s)

\* Shelf(name, books): s is the new object, `books` the id of the argument list.
\* self.books = [] allocates the list object with id s.
Shelf_init(h, s, books) ==
    LET h1 == [h EXCEPT !.shelfBooks[s] = s, !.bookLists[s] = <<>>]
        h2 == [h1 EXCEPT !.shelfLib[s] = None]
        h3 == Shelf_copy_from(h2, s, books, 1)
    IN Shelf_sync_books(h3, s)

\* return self.books : the list object itself, not a copy
Shelf_get_books(h, s) == h.shelfBooks[s]

-----------------------------------------------------------------------------
(* Library *)

\* for shelf in self.shelves: shelf.library = self
RECURSIVE Library_sync_shelves_from(_, _, _)
Library_sync_shelves_from(h, l, i) ==
    IF i > Len(ShelvesOf(h, l)) THEN h
    ELSE Library_sync_shelves_from(
             [h EXCEPT !.shelfLib[ShelvesOf(h, l)[i]] = l], l, i + 1)

\* Faulty variant: the loop stops one Shelf short (range(len(self.shelves) - 1)).
RECURSIVE Library_sync_shelves_short_from(_, _, _)
Library_sync_shelves_short_from(h, l, i) ==
    IF i >= Len(ShelvesOf(h, l)) THEN h
    ELSE Library_sync_shelves_short_from(
             [h EXCEPT !.shelfLib[ShelvesOf(h, l)[i]] = l], l, i + 1)

Library_sync_shelves_short(h, l) == Library_sync_shelves_short_from(h, l, 1)

\* Faulty variant: _sync_shelves also synchronises the Books of each Shelf.
RECURSIVE Library_sync_shelves_deep_from(_, _, _)
Library_sync_shelves_deep_from(h, l, i) ==
    IF i > Len(ShelvesOf(h, l)) THEN h
    ELSE Library_sync_shelves_deep_from(
             Shelf_sync_books([h EXCEPT !.shelfLib[ShelvesOf(h, l)[i]] = l],
                              ShelvesOf(h, l)[i]),
             l, i + 1)

Library_sync_shelves_deep(h, l) == Library_sync_shelves_deep_from(h, l, 1)

Library_sync_shelves(h, l) == Library_sync_shelves_from(h, l, 1)

\* for shelf in self.shelves: shelf._sync_books()
RECURSIVE Library_sync_books_from(_, _, _)
Library_sync_books_from(h, l, i) ==
    IF i > Len(ShelvesOf(h, l)) THEN h
    ELSE Library_sync_books_from(Shelf_sync_books(h, ShelvesOf(h, l)[i]), l, i + 1)

\* Faulty variant: _sync_books writes the Library into each Shelf before visiting it.
RECURSIVE Library_sync_books_binding_from(_, _, _)
Library_sync_books_binding_from(h, l, i) ==
    IF i > Len(ShelvesOf(h, l)) THEN h
    ELSE Library_sync_books_binding_from(
             Shelf_sync_books([h EXCEPT !.shelfLib[ShelvesOf(h, l)[i]] = l],
                              ShelvesOf(h, l)[i]),
             l, i + 1)

Library_sync_books_binding(h, l) == Library_sync_books_binding_from(h, l, 1)

Library_sync_books(h, l) == Library_sync_books_from(h, l, 1)

\* for shelf in shelves: self.shelves.append(shelf)
RECURSIVE Library_copy_from(_, _, _, _)
Library_copy_from(h, l, shelves, i) ==
    IF i > Len(h.shelfLists[shelves]) THEN h
    ELSE Library_copy_from(
             shelves_append(h, h.libShelves[l], h.shelfLists[shelves][i]),
             l, shelves, i + 1)

\* Faulty variant: the two calls in the other order.
Library_sync_swapped(h, l) == Library_sync_shelves(Library_sync_books(h, l), l)

\* self._sync_shelves(); self._sync_books()
Library_sync(h, l) == Library_sync_books(Library_sync_shelves(h, l), l)

\* Faulty variant: the constructor without its call of self._sync_books().
Library_init_no_sync_books(h, l, shelves) ==
    LET h1 == [h EXCEPT !.libShelves[l] = l, !.shelfLists[l] = <<>>]
        h2 == Library_copy_from(h1, l, shelves, 1)
    IN Library_sync_shelves(h2, l)

\* Library(name, shelves): l is the new object; self.shelves = [] allocates
\* the list object with id l.
Library_init(h, l, shelves) ==
    LET h1 == [h EXCEPT !.libShelves[l] = l, !.shelfLists[l] = <<>>]
        h2 == Library_copy_from(h1, l, shelves, 1)
    IN Library_sync(h2, l)

\* return self.shelves : the list object itself
Library_get_shelves(h, l) == h.libShelves[l]

\* books = []; for shelf in self.shelves: books += shelf.get_books()
RECURSIVE Library_get_books_from(_, _, _, _)
Library_get_books_from(h, l, i, books) ==
    IF i > Len(ShelvesOf(h, l)) THEN books
    ELSE Library_get_books_from(
             h, l, i + 1,
             books \o h.bookLists[Shelf_get_books(h, ShelvesOf(h, l)[i])])

\* Faulty variant: a Book already in the result is not added again.
RECURSIVE AppendNew(_, _, _)
AppendNew(books, more, j) ==
    IF j > Len(more) THEN books
    ELSE AppendNew(IF \E k \in DOMAIN books : books[k] = more[j]
                   THEN books ELSE Append(books, more[j]),
                   more, j + 1)

RECURSIVE Library_get_books_dedup_from(_, _, _, _)
Library_get_books_dedup_from(h, l, i, books) ==
    IF i > Len(ShelvesOf(h, l)) THEN books
    ELSE Library_get_books_dedup_from(
             h, l, i + 1,
             AppendNew(books, h.bookLists[Shelf_get_books(h, ShelvesOf(h, l)[i])], 1))

Library_get_books_dedup(h, l) == Library_get_books_dedup_from(h, l, 1, <<>>)

Library_get_books(h, l) == Library_get_books_from(h, l, 1, <<>>)

-----------------------------------------------------------------------------
(* The state after loading the module: no object exists, the caller's two  *)
(* lists and the two default-argument lists are empty.                     *)

\* Objects constructed plus appends made by the caller: what MaxOps caps.
GrowthOps == nBooks + nShelves + nLibs + nAppends

Init ==
    /\ nAppends = 0
    /\ nBooks = 0
    /\ nShelves = 0
    /\ nLibs = 0
    /\ bookLib = [b \in Books |-> None]
    /\ bookShelf = [b \in Books |-> None]
    /\ shelfLib = [s \in Shelves |-> None]
    /\ shelfBooks = [s \in Shelves |-> None]
    /\ libShelves = [l \in Libs |-> None]
    /\ bookLists = [i \in BookListIds |-> <<>>]
    /\ shelfLists = [i \in ShelfListIds |-> <<>>]
    /\ lastOp = Op("init", None, None, <<>>)

\* Book(title, author)
NewBook ==
    /\ GrowthOps < MaxOps
    /\ UNCHANGED nAppends
    /\ nBooks < NBooks
    /\ nBooks' = nBooks + 1
    /\ bookLib' = [bookLib EXCEPT ![nBooks + 1] = None]
    /\ bookShelf' = [bookShelf EXCEPT ![nBooks + 1] = None]
    /\ lastOp' = Op("Book", nBooks + 1, None, <<>>)
    /\ UNCHANGED <<nShelves, nLibs, shelfLib, shelfBooks, libShelves,
                   bookLists, shelfLists>>

\* The lists of Books the caller can name: its own, and every shelf.books.
ReachableBookLists == {CallerBooks} \cup {shelfBooks[s] : s \in 1..nShelves}
ReachableShelfLists == {CallerShelves} \cup {libShelves[l] : l \in 1..nLibs}

\* Shelf(name, books) with a list the caller can name, or Shelf(name).
NewShelf ==
    /\ GrowthOps < MaxOps
    /\ UNCHANGED nAppends
    /\ nShelves < NShelves
    /\ \E books \in ReachableBookLists \cup {DefaultBooks} :
          /\ Commit(Shelf_init(Heap, nShelves + 1, books))
          /\ lastOp' = Op("Shelf", nShelves + 1, books, <<>>)
    /\ nShelves' = nShelves + 1
    /\ UNCHANGED <<nBooks, nLibs>>

\* Library(name, shelves) with a list the caller can name, or Library(name).
NewLibrary ==
    /\ GrowthOps < MaxOps
    /\ UNCHANGED nAppends
    /\ nLibs < NLibs
    /\ \E shelves \in ReachableShelfLists \cup {DefaultShelves} :
          /\ Commit(Library_init(Heap, nLibs + 1, shelves))
          /\ lastOp' = Op("Library", nLibs + 1, shelves, <<>>)
    /\ nLibs' = nLibs + 1
    /\ UNCHANGED <<nBooks, nShelves>>

\* The caller appends a Book to its own list (building [book1, book2]).
CallerBooksAppend ==
    /\ GrowthOps < MaxOps
    /\ nAppends' = nAppends + 1
    /\ Len(bookLists[CallerBooks]) < MaxLen
    /\ \E b \in 1..nBooks :
          /\ Commit(books_append(Heap, CallerBooks, b))
          /\ lastOp' = Op("caller.books.append", None, b, <<>>)
    /\ UNCHANGED <<nBooks, nShelves, nLibs>>

\* The caller appends a Shelf to its own list (building [shelf1]).
CallerShelvesAppend ==
    /\ GrowthOps < MaxOps
    /\ nAppends' = nAppends + 1
    /\ Len(shelfLists[CallerShelves]) < MaxLen
    /\ \E s \in 1..nShelves :
          /\ Commit(shelves_append(Heap, CallerShelves, s))
          /\ lastOp' = Op("caller.shelves.append", None, s, <<>>)
    /\ UNCHANGED <<nBooks, nShelves, nLibs>>

\* shelf.books.append(book)
ShelfBooksAppend ==
    /\ GrowthOps < MaxOps
    /\ nAppends' = nAppends + 1
    /\ \E s \in 1..nShelves, b \in 1..nBooks :
          /\ Len(BooksOf(Heap, s)) < MaxLen
          /\ Commit(books_append(Heap, shelfBooks[s], b))
          /\ lastOp' = Op("shelf.books.append", s, b, <<>>)
    /\ UNCHANGED <<nBooks, nShelves, nLibs>>

\* Faulty variant: appending a Shelf to library.shelves also sets shelf.library.
LibraryShelvesAppend_binding ==
    /\ GrowthOps < MaxOps
    /\ nAppends' = nAppends + 1
    /\ \E l \in 1..nLibs, s \in 1..nShelves :
          /\ Len(ShelvesOf(Heap, l)) < MaxLen
          /\ Commit([shelves_append(Heap, libShelves[l], s) EXCEPT !.shelfLib[s] = l])
          /\ lastOp' = Op("library.shelves.append", l, s, <<>>)
    /\ UNCHANGED <<nBooks, nShelves, nLibs>>

\* library.shelves.append(shelf)
LibraryShelvesAppend ==
    /\ GrowthOps < MaxOps
    /\ nAppends' = nAppends + 1
    /\ \E l \in 1..nLibs, s \in 1..nShelves :
          /\ Len(ShelvesOf(Heap, l)) < MaxLen
          /\ Commit(shelves_append(Heap, libShelves[l], s))
          /\ lastOp' = Op("library.shelves.append", l, s, <<>>)
    /\ UNCHANGED <<nBooks, nShelves, nLibs>>

\* shelf._sync_books()
ShelfSyncBooks ==
    /\ UNCHANGED nAppends
    /\ \E s \in 1..nShelves :
          /\ Commit(Shelf_sync_books(Heap, s))
          /\ lastOp' = Op("Shelf._sync_books", s, None, <<>>)
    /\ UNCHANGED <<nBooks, nShelves, nLibs>>

\* library._sync_shelves()
LibrarySyncShelves ==
    /\ UNCHANGED nAppends
    /\ \E l \in 1..nLibs :
          /\ Commit(Library_sync_shelves(Heap, l))
          /\ lastOp' = Op("Library._sync_shelves", l, None, <<>>)
    /\ UNCHANGED <<nBooks, nShelves, nLibs>>

\* library._sync_books()
LibrarySyncBooks ==
    /\ UNCHANGED nAppends
    /\ \E l \in 1..nLibs :
          /\ Commit(Library_sync_books(Heap, l))
          /\ lastOp' = Op("Library._sync_books", l, None, <<>>)
    /\ UNCHANGED <<nBooks, nShelves, nLibs>>

\* library.get_books(): returns a new list, held by the caller only.
LibraryGetBooks ==
    /\ UNCHANGED nAppends
    /\ \E l \in 1..nLibs :
          lastOp' = Op("Library.get_books", l, None, Library_get_books(Heap, l))
    /\ UNCHANGED <<nBooks, nShelves, nLibs, bookLib, bookShelf, shelfLib,
                   shelfBooks, libShelves, bookLists, shelfLists>>

\* library.get_shelves(): returns the list object library.shelves.
LibraryGetShelves ==
    /\ UNCHANGED nAppends
    /\ \E l \in 1..nLibs :
          lastOp' = Op("Library.get_shelves", l, Library_get_shelves(Heap, l), <<>>)
    /\ UNCHANGED <<nBooks, nShelves, nLibs, bookLib, bookShelf, shelfLib,
                   shelfBooks, libShelves, bookLists, shelfLists>>

\* shelf.get_books(): returns the list object shelf.books.
ShelfGetBooks ==
    /\ UNCHANGED nAppends
    /\ \E s \in 1..nShelves :
          lastOp' = Op("Shelf.get_books", s, Shelf_get_books(Heap, s), <<>>)
    /\ UNCHANGED <<nBooks, nShelves, nLibs, bookLib, bookShelf, shelfLib,
                   shelfBooks, libShelves, bookLists, shelfLists>>

\* library.list_shelves(): prints each Shelf, returns None.
LibraryListShelves ==
    /\ UNCHANGED nAppends
    /\ \E l \in 1..nLibs : lastOp' = Op("Library.list_shelves", l, None, <<>>)
    /\ UNCHANGED <<nBooks, nShelves, nLibs, bookLib, bookShelf, shelfLib,
                   shelfBooks, libShelves, bookLists, shelfLists>>

\* library.list_books(): calls shelf.list_books() on each Shelf, returns None.
LibraryListBooks ==
    /\ UNCHANGED nAppends
    /\ \E l \in 1..nLibs : lastOp' = Op("Library.list_books", l, None, <<>>)
    /\ UNCHANGED <<nBooks, nShelves, nLibs, bookLib, bookShelf, shelfLib,
                   shelfBooks, libShelves, bookLists, shelfLists>>

\* shelf.list_books(): prints each Book, returns None.
ShelfListBooks ==
    /\ UNCHANGED nAppends
    /\ \E s \in 1..nShelves : lastOp' = Op("Shelf.list_books", s, None, <<>>)
    /\ UNCHANGED <<nBooks, nShelves, nLibs, bookLib, bookShelf, shelfLib,
                   shelfBooks, libShelves, bookLists, shelfLists>>

Next ==
    \/ NewBook
    \/ NewShelf
    \/ NewLibrary
    \/ CallerBooksAppend
    \/ CallerShelvesAppend
    \/ ShelfBooksAppend
    \/ LibraryShelvesAppend
    \/ ShelfSyncBooks
    \/ LibrarySyncShelves
    \/ LibrarySyncBooks
    \/ LibraryGetBooks
    \/ LibraryGetShelves
    \/ ShelfGetBooks
    \/ LibraryListShelves
    \/ LibraryListBooks
    \/ ShelfListBooks

Spec == Init /\ [][Next]_vars

-----------------------------------------------------------------------------
(* Vocabulary of the properties *)

Range(seq) == {seq[i] : i \in DOMAIN seq}

\* The Books held by some Shelf of library l.
BooksUnder(h, l) ==
    UNION {Range(BooksOf(h, s)) : s \in Range(ShelvesOf(h, l))}

\* The last Shelf, in the order of the sequence S, whose books hold b.
LastShelfHolding(h, S, b) ==
    LET holders == {i \in DOMAIN S : b \in Range(BooksOf(h, S[i]))}
    IN S[CHOOSE i \in holders : \A j \in holders : j <= i]

\* Every Shelf of S points at l, and every Book of a Shelf of S points at l and
\* at that very Shelf.
BackRefsExact(h, l, S) ==
    \A i \in DOMAIN S :
        /\ h.shelfLib[S[i]] = l
        /\ \A b \in Range(BooksOf(h, S[i])) :
              /\ h.bookShelf[b] = S[i]
              /\ h.bookLib[b] = l

\* Every Shelf of S points at l, and every Book of a Shelf of S points at l and
\* at the last Shelf of S that holds it.
BackRefsLastWins(h, l, S) ==
    \A i \in DOMAIN S :
        /\ h.shelfLib[S[i]] = l
        /\ \A b \in Range(BooksOf(h, S[i])) :
              /\ h.bookShelf[b] = LastShelfHolding(h, S, b)
              /\ h.bookLib[b] = l

\* Two distinct Shelves of S hold a common Book.
SharesABook(h, S) ==
    \E i, j \in DOMAIN S :
        /\ S[i] # S[j]
        /\ Range(BooksOf(h, S[i])) \cap Range(BooksOf(h, S[j])) # {}

-----------------------------------------------------------------------------
\* C1 as stated: immediately after Library(name, S), every Shelf of S has
\* library == L and every Book in a Shelf of S has shelf == that Shelf and
\* library == L, Books shared between Shelves of S included.
C1_Original ==
    lastOp.op = "Library" =>
        BackRefsExact(Heap, lastOp.self, shelfLists[lastOp.arg])

\* C1 as amended: immediately after Library(name, S), every Shelf of S has
\* library == L, and every Book in a Shelf of S has library == L and shelf ==
\* the last Shelf of S, in sequence order, whose books hold it (so shelf == that
\* Shelf for every Book held by only one Shelf of S).
C1_AfterConstruction ==
    lastOp.op = "Library" =>
        /\ BackRefsLastWins(Heap, lastOp.self, shelfLists[lastOp.arg])
        /\ ~SharesABook(Heap, shelfLists[lastOp.arg]) =>
               BackRefsExact(Heap, lastOp.self, shelfLists[lastOp.arg])

\* A Library has just been constructed from two distinct Shelves sharing a Book.
C1_Witness ==
    /\ lastOp.op = "Library"
    /\ SharesABook(Heap, shelfLists[lastOp.arg])

-----------------------------------------------------------------------------
\* A step of library._sync_books() on l made right after library._sync_shelves()
\* on the same l: the second half of the pair SyncShelves(); SyncBooks().
SyncPairEnds(l) ==
    /\ lastOp.op = "Library._sync_shelves"
    /\ lastOp.self = l
    /\ lastOp'.op = "Library._sync_books"
    /\ lastOp'.self = l

\* C2 as stated: after SyncShelves() then SyncBooks() on L, every Shelf in
\* L.shelves has library == L and every Book in the books of such a Shelf has
\* shelf == that Shelf and library == L.
C2_Original ==
    [][\A l \in Libs :
          SyncPairEnds(l) => BackRefsExact(Heap', l, ShelvesOf(Heap', l))]_vars

\* C2 as amended: after SyncShelves() then SyncBooks() on L, every Shelf in
\* L.shelves has library == L, and every Book in the books of such a Shelf has
\* library == L and shelf == the last Shelf of L.shelves whose books hold it
\* (so shelf == that Shelf for every Book held by only one Shelf of L.shelves).
C2_AfterSync ==
    [][\A l \in Libs :
          SyncPairEnds(l) =>
              /\ BackRefsLastWins(Heap', l, ShelvesOf(Heap', l))
              /\ ~SharesABook(Heap', ShelvesOf(Heap', l)) =>
                     BackRefsExact(Heap', l, ShelvesOf(Heap', l))]_vars

\* library._sync_books() has just run on a Library two of whose Shelves share
\* a Book, and every Shelf of it is bound to it.
C2_Witness ==
    /\ lastOp.op = "Library._sync_books"
    /\ SharesABook(Heap, ShelvesOf(Heap, lastOp.self))
    /\ \A s \in Range(ShelvesOf(Heap, lastOp.self)) : shelfLib[s] = lastOp.self
    /\ \A b \in BooksUnder(Heap, lastOp.self) : bookLib[b] = lastOp.self

-----------------------------------------------------------------------------
DirectAppends == {"shelf.books.append", "library.shelves.append"}

\* C3: no synchronisation on mutation.  A step that appends a Shelf to
\* library.shelves or a Book to shelf.books changes no back-reference, and a
\* Shelf's library changes only in a step of Library._sync_shelves (or the
\* Library constructor) on a Library whose shelves hold it, a Book's shelf or
\* library only in a step of one of the sync operations or constructors.
C3_NoAutoSync ==
    [][/\ lastOp'.op \in DirectAppends =>
              /\ shelfLib' = shelfLib
              /\ bookShelf' = bookShelf
              /\ bookLib' = bookLib
       /\ \A s \in Shelves :
              shelfLib'[s] # shelfLib[s] =>
                  /\ lastOp'.op \in {"Library._sync_shelves", "Library"}
                  /\ s \in Range(ShelvesOf(Heap', lastOp'.self))
       /\ \A b \in Books :
              (bookShelf'[b] # bookShelf[b] \/ bookLib'[b] # bookLib[b]) =>
                  lastOp'.op \in {"Shelf._sync_books", "Library._sync_books",
                                  "Shelf", "Library"}]_vars

\* A Shelf holding a Book has just been appended to library.shelves: the Shelf's
\* library and the Book's library are still absent.
C3_Witness ==
    /\ lastOp.op = "library.shelves.append"
    /\ shelfLib[lastOp.arg] = None
    /\ \E b \in Range(BooksOf(Heap, lastOp.arg)) : bookLib[b] = None

-----------------------------------------------------------------------------
\* C4: the constructors copy.  Right after Shelf(name, books) / Library(name,
\* shelves) the new collection has the contents of the argument, which is
\* unchanged; an append to the caller's list changes no Shelf's books and no
\* Library's shelves; an append to shelf.books (library.shelves) adds exactly
\* that element to it and changes neither the caller's list, nor the default
\* argument, nor the collection of any other Shelf (Library).
C4_NoAliasing ==
    [][/\ lastOp'.op = "Shelf" =>
              /\ BooksOf(Heap', lastOp'.self) = bookLists[lastOp'.arg]
              /\ bookLists'[lastOp'.arg] = bookLists[lastOp'.arg]
       /\ lastOp'.op = "Library" =>
              /\ ShelvesOf(Heap', lastOp'.self) = shelfLists[lastOp'.arg]
              /\ shelfLists'[lastOp'.arg] = shelfLists[lastOp'.arg]
       /\ lastOp'.op = "caller.books.append" =>
              \A s \in 1..nShelves : BooksOf(Heap', s) = BooksOf(Heap, s)
       /\ lastOp'.op = "caller.shelves.append" =>
              \A l \in 1..nLibs : ShelvesOf(Heap', l) = ShelvesOf(Heap, l)
       /\ lastOp'.op = "shelf.books.append" =>
              /\ BooksOf(Heap', lastOp'.self) =
                     Append(BooksOf(Heap, lastOp'.self), lastOp'.arg)
              /\ bookLists'[CallerBooks] = bookLists[CallerBooks]
              /\ bookLists'[DefaultBooks] = bookLists[DefaultBooks]
              /\ \A s \in 1..nShelves :
                     s # lastOp'.self => BooksOf(Heap', s) = BooksOf(Heap, s)
       /\ lastOp'.op = "library.shelves.append" =>
              /\ ShelvesOf(Heap', lastOp'.self) =
                     Append(ShelvesOf(Heap, lastOp'.self), lastOp'.arg)
              /\ shelfLists'[CallerShelves] = shelfLists[CallerShelves]
              /\ shelfLists'[DefaultShelves] = shelfLists[DefaultShelves]
              /\ \A l \in 1..nLibs :
                     l # lastOp'.self => ShelvesOf(Heap', l) = ShelvesOf(Heap, l)]_vars

IsProperPrefix(p, q) ==
    /\ Len(p) < Len(q)
    /\ \A i \in DOMAIN p : p[i] = q[i]

\* The caller has just appended to its list, from which a Shelf was built
\* before: the Shelf still holds the shorter, earlier contents.
C4_Witness ==
    /\ lastOp.op = "caller.books.append"
    /\ \E s \in 1..nShelves :
          /\ BooksOf(Heap, s) # <<>>
          /\ IsProperPrefix(BooksOf(Heap, s), bookLists[CallerBooks])

-----------------------------------------------------------------------------
\* The number of Books in the Shelves S[1] .. S[n].
RECURSIVE BooksBefore(_, _, _)
BooksBefore(h, S, n) ==
    IF n = 0 THEN 0 ELSE BooksBefore(h, S, n - 1) + Len(BooksOf(h, S[n]))

\* r is the books of S[1], then those of S[2], ..., each in its own order and
\* every occurrence kept.
IsConcatenation(h, S, r) ==
    /\ Len(r) = BooksBefore(h, S, Len(S))
    /\ \A i \in DOMAIN S :
          \A j \in DOMAIN BooksOf(h, S[i]) :
              r[BooksBefore(h, S, i - 1) + j] = BooksOf(h, S[i])[j]

-----------------------------------------------------------------------------
\* C6: synchronisation is idempotent.  In every reachable state, for every
\* Library, SyncShelves(); SyncBooks() run twice gives the state that running
\* it once gives, and for every Shelf, SyncBooks() run twice gives the state
\* that running it once gives.
C6_Idempotent ==
    /\ \A l \in 1..nLibs :
          Library_sync(Library_sync(Heap, l), l) = Library_sync(Heap, l)
    /\ \A s \in 1..nShelves :
          Shelf_sync_books(Shelf_sync_books(Heap, s), s) = Shelf_sync_books(Heap, s)

\* library._sync_books() has just run on a Library holding a Shelf with a Book:
\* every Book under it is bound to it, and running the pair of syncs again
\* changes nothing.
C6_Witness ==
    /\ lastOp.op = "Library._sync_books"
    /\ BooksUnder(Heap, lastOp.self) # {}
    /\ Library_sync(Heap, lastOp.self) = Heap
    /\ \A b \in BooksUnder(Heap, lastOp.self) : bookLib[b] = lastOp.self

-----------------------------------------------------------------------------
\* C7: a step of shelf._sync_books() on s leaves every Book of s.books with
\* shelf == s and library == s.library, and changes nothing else: not s.books,
\* not s.library, no Book outside s.books, no other Shelf, no Library.
C7_ShelfSyncBooks ==
    [][lastOp'.op = "Shelf._sync_books" =>
          LET s == lastOp'.self IN
          /\ \A b \in Range(BooksOf(Heap, s)) :
                /\ bookShelf'[b] = s
                /\ bookLib'[b] = shelfLib[s]
          /\ \A b \in Books \ Range(BooksOf(Heap, s)) :
                /\ bookShelf'[b] = bookShelf[b]
                /\ bookLib'[b] = bookLib[b]
          /\ UNCHANGED <<shelfLib, shelfBooks, libShelves, bookLists, shelfLists,
                         nBooks, nShelves, nLibs>>]_vars

\* shelf._sync_books() has just run on a Shelf bound to a Library and holding a
\* Book, while another Book is outside that Shelf.
C7_Witness ==
    /\ lastOp.op = "Shelf._sync_books"
    /\ shelfLib[lastOp.self] # None
    /\ \E b \in Range(BooksOf(Heap, lastOp.self)) : bookLib[b] = shelfLib[lastOp.self]
    /\ \E b \in 1..nBooks : b \notin Range(BooksOf(Heap, lastOp.self))

-----------------------------------------------------------------------------
\* C8 as stated: Shelf(name, books) sets the shelf of each Book of `books` to
\* the new Shelf and leaves its library as it was: absent if it was absent,
\* still bound if it was bound.
C8_Original ==
    [][lastOp'.op = "Shelf" =>
          \A b \in Range(bookLists[lastOp'.arg]) :
              /\ bookShelf'[b] = lastOp'.self
              /\ bookLib'[b] = bookLib[b]]_vars

\* C8 as amended: Shelf(name, books) sets the shelf of each Book of `books` to
\* the new Shelf and its library to the new Shelf's library, which is absent,
\* also when the Book's library was bound before.
C8_ShelfConstruction ==
    [][lastOp'.op = "Shelf" =>
          /\ shelfLib'[lastOp'.self] = None
          /\ \A b \in Range(bookLists[lastOp'.arg]) :
                /\ bookShelf'[b] = lastOp'.self
                /\ bookLib'[b] = None]_vars

\* A Shelf has just been constructed from a list holding a Book that another
\* Shelf, bound to a Library that holds it, holds too.
C8_Witness ==
    /\ lastOp.op = "Shelf"
    /\ \E b \in Range(BooksOf(Heap, lastOp.self)) :
          /\ bookLib[b] = None
          /\ bookShelf[b] = lastOp.self
          /\ \E t \in 1..nShelves :
                /\ t # lastOp.self
                /\ b \in Range(BooksOf(Heap, t))
                /\ shelfLib[t] # None
                /\ t \in Range(ShelvesOf(Heap, shelfLib[t]))

-----------------------------------------------------------------------------
\* The step is a synchronisation that visits Book b: Shelf._sync_books on a
\* Shelf holding b (called directly or by the Shelf constructor), or
\* Library._sync_books on a Library with a Shelf holding b (called directly or
\* by the Library constructor).
SyncVisits(b) ==
    \/ /\ lastOp'.op \in {"Shelf._sync_books", "Shelf"}
       /\ b \in Range(BooksOf(Heap', lastOp'.self))
    \/ /\ lastOp'.op \in {"Library._sync_books", "Library"}
       /\ b \in BooksUnder(Heap', lastOp'.self)

\* C9: a Book's shelf and library are absent right after Book(title, author),
\* and afterwards change only in a step that is a synchronisation visiting it;
\* every other operation leaves them as they are.
C9_BookBackRefs ==
    [][/\ lastOp'.op = "Book" =>
              /\ bookShelf'[lastOp'.self] = None
              /\ bookLib'[lastOp'.self] = None
       /\ \A b \in Books :
              (bookShelf'[b] # bookShelf[b] \/ bookLib'[b] # bookLib[b]) =>
                  SyncVisits(b)]_vars

\* library._sync_shelves() has just bound a Shelf whose Book it did not touch:
\* the Book's library is still absent.
C9_Witness ==
    /\ lastOp.op = "Library._sync_shelves"
    /\ \E s \in Range(ShelvesOf(Heap, lastOp.self)) :
          /\ shelfLib[s] = lastOp.self
          /\ \E b \in Range(BooksOf(Heap, s)) : bookLib[b] = None

-----------------------------------------------------------------------------
LastOf(S) == S[Len(S)]

\* C10: the order of the two Library syncs matters.  When a Shelf that has no
\* library and holds a Book has just been appended to L.shelves and
\* _sync_books() runs on L first, the Shelf's Books get shelf == that Shelf and
\* library absent, the Shelf's library staying absent; when _sync_shelves()
\* runs on L next, the Shelf gets library == L and its Books keep shelf == that
\* Shelf and library absent.  In the order _sync_shelves() then _sync_books()
\* every Book under L ends with library == L.
C10_SyncOrder ==
    [][\A l \in Libs :
          /\ ( /\ lastOp.op = "library.shelves.append"
               /\ lastOp.self = l
               /\ shelfLib[lastOp.arg] = None
               /\ BooksOf(Heap, lastOp.arg) # <<>>
               /\ lastOp'.op = "Library._sync_books"
               /\ lastOp'.self = l ) =>
                 LET s == lastOp.arg IN
                 /\ LastOf(ShelvesOf(Heap', l)) = s
                 /\ shelfLib'[s] = None
                 /\ \A b \in Range(BooksOf(Heap', s)) :
                       /\ bookShelf'[b] = s
                       /\ bookLib'[b] = None
          /\ ( /\ lastOp.op = "Library._sync_books"
               /\ lastOp.self = l
               /\ lastOp'.op = "Library._sync_shelves"
               /\ lastOp'.self = l
               /\ ShelvesOf(Heap, l) # <<>>
               /\ shelfLib[LastOf(ShelvesOf(Heap, l))] = None
               /\ BooksOf(Heap, LastOf(ShelvesOf(Heap, l))) # <<>> ) =>
                 LET s == LastOf(ShelvesOf(Heap, l)) IN
                 /\ shelfLib'[s] = l
                 /\ \A b \in Range(BooksOf(Heap', s)) :
                       /\ bookShelf'[b] = s
                       /\ bookLib'[b] = None
          /\ SyncPairEnds(l) =>
                 \A b \in BooksUnder(Heap', l) : bookLib'[b] = l]_vars

\* _sync_shelves() has just run on L: its last Shelf is bound to L, and the
\* Books of that Shelf point at the Shelf and have no library.
C10_Witness ==
    /\ lastOp.op = "Library._sync_shelves"
    /\ ShelvesOf(Heap, lastOp.self) # <<>>
    /\ LET s == LastOf(ShelvesOf(Heap, lastOp.self)) IN
          /\ shelfLib[s] = lastOp.self
          /\ BooksOf(Heap, s) # <<>>
          /\ \A b \in Range(BooksOf(Heap, s)) :
                bookShelf[b] = s /\ bookLib[b] = None

=============================================================================
